---- MODULE Spec2Model ----
(***************************************************************************)
(* Verification model of the playback scheduler of daw_midi_annotator.py   *)
(* (DAWAnnotator: on_play, on_pause, on_stop, on_canvas_seek, _audio_loop)  *)
(* and of the tempo helpers of utils.py.                                    *)
(*                                                                         *)
(* Times of the annotator are integers in milliseconds (the source uses    *)
(* float seconds); MIDI tempos are microseconds per beat as in the source. *)
(***************************************************************************)
EXTENDS Integers, Sequences, FiniteSets, TLC

\* ------------------------------------------------------------------ bounds
\* Number of background threads one behaviour may start.
MaxRuns == 2
\* Number of control operations (button presses) one behaviour may make.
MaxOps == 3
\* Number of clock samples one behaviour may take.
MaxTicks == 3

\* --------------------------------------------------------- program constants
default_tempo == 500000
CLICK_NOTE_STRONG == 37
CLICK_NOTE_WEAK == 42
ch9 == 9
accent_vel == 115
weak_vel == 85
\* 0.03 s, the length of one click
ClickLen == 30
\* 0.01 s, the floor of a note's duration
MinNoteLen == 10
\* 1.0 s of trailing silence after the last event
TrailSilence == 1000
\* join(timeout=0.5)
JoinTimeout == 500
\* MidiSummary.ticks_per_beat
TicksPerBeat == 480
\* self.bpm, self.total_measures
bpm == 120
total_measures == 128

\* ------------------------------------------------------------------ helpers
Max2(a, b) == IF a >= b THEN a ELSE b

\* list.sort(key=lambda x: x[0]) on records with a field t: a stable sort.
RECURSIVE InsertByTime(_, _)
InsertByTime(sorted, e) ==
  IF sorted = <<>> THEN <<e>>
  ELSE IF sorted[Len(sorted)].t <= e.t THEN Append(sorted, e)
  ELSE Append(InsertByTime(SubSeq(sorted, 1, Len(sorted) - 1), e), sorted[Len(sorted)])

RECURSIVE SortFrom(_, _, _)
SortFrom(s, k, acc) ==
  IF k > Len(s) THEN acc ELSE SortFrom(s, k + 1, InsertByTime(acc, s[k]))

SortByTime(s) == SortFrom(s, 1, <<>>)

\* Python's round(): half to even, of the rational n/d (d > 0, n >= 0).
RoundHalfEven(n, d) ==
  LET q == n \div d
      r == n % d
  IN  IF 2 * r < d THEN q
      ELSE IF 2 * r > d THEN q + 1
      ELSE IF q % 2 = 0 THEN q ELSE q + 1

\* mido.tick2second(tick, ticks_per_beat, tempo), in milliseconds.
Tick2Ms(tick, tpq, tempo) == (tick * tempo) \div (tpq * 1000)

\* ------------------------------------------------- MidiSummary.from_file
\* Messages of the merged track: delta time in ticks, type, note, velocity,
\* tempo (set_tempo only).
NoteOn(dt, n, v) == [time |-> dt, type |-> "note_on", note |-> n, velocity |-> v, tempo |-> 0]

NoteOff(dt, n) == [time |-> dt, type |-> "note_off", note |-> n, velocity |-> 0, tempo |-> 0]

SetTempo(dt, us) == [time |-> dt, type |-> "set_tempo", note |-> 0, velocity |-> 0, tempo |-> us]

Pitches == {60, 62}

\* State of the loading loop before the first message.
LoadInit ==
  [t_sec |-> 0, cur_tempo |-> default_tempo,
   tempo_changes |-> << [t |-> 0, us |-> default_tempo] >>,
   on_stack |-> [p \in Pitches |-> <<>>],
   events |-> <<>>, notes_tmp |-> <<>>]

\* Mutant: the note end takes the oldest open begin (lst.pop(0)).
LoadStepFifo(st, msg) ==
  LET t == IF msg.time # 0 THEN st.t_sec + Tick2Ms(msg.time, TicksPerBeat, st.cur_tempo)
           ELSE st.t_sec
      s1 == [st EXCEPT !.t_sec = t]
  IN  IF msg.type = "set_tempo"
        THEN [s1 EXCEPT !.cur_tempo = msg.tempo,
                        !.tempo_changes = Append(@, [t |-> t, us |-> msg.tempo])]
      ELSE IF msg.type = "note_on" /\ msg.velocity > 0
        THEN [s1 EXCEPT !.on_stack[msg.note] = Append(@, [s |-> t, v |-> msg.velocity])]
      ELSE IF msg.type = "note_off" \/ (msg.type = "note_on" /\ msg.velocity = 0)
        THEN LET lst == s1.on_stack[msg.note]
             IN  IF lst # <<>>
                   THEN LET top == lst[1]
                        IN  [s1 EXCEPT
                               !.on_stack[msg.note] = Tail(lst),
                               !.events = @ \o << [t |-> top.s, kind |-> "on", note |-> msg.note, vel |-> top.v],
                                                  [t |-> t, kind |-> "off", note |-> msg.note, vel |-> 0] >>,
                               !.notes_tmp = Append(@, [s |-> top.s,
                                                        d |-> Max2(MinNoteLen, t - top.s),
                                                        p |-> msg.note])]
                   ELSE s1
      ELSE s1

\* One iteration of "for msg in merged".
LoadStep(st, msg) ==
  LET t == IF msg.time # 0 THEN st.t_sec + Tick2Ms(msg.time, TicksPerBeat, st.cur_tempo)
           ELSE st.t_sec
      s1 == [st EXCEPT !.t_sec = t]
  IN  IF msg.type = "set_tempo"
        THEN [s1 EXCEPT !.cur_tempo = msg.tempo,
                        !.tempo_changes = Append(@, [t |-> t, us |-> msg.tempo])]
      ELSE IF msg.type = "time_signature" THEN s1
      ELSE IF msg.type = "note_on" /\ msg.velocity > 0
        THEN [s1 EXCEPT !.on_stack[msg.note] = Append(@, [s |-> t, v |-> msg.velocity])]
      ELSE IF msg.type = "note_off" \/ (msg.type = "note_on" /\ msg.velocity = 0)
        THEN LET lst == s1.on_stack[msg.note]
             IN  IF lst # <<>>
                   THEN LET top == lst[Len(lst)]
                        IN  [s1 EXCEPT
                               !.on_stack[msg.note] = SubSeq(lst, 1, Len(lst) - 1),
                               !.events = @ \o << [t |-> top.s, kind |-> "on", note |-> msg.note, vel |-> top.v],
                                                  [t |-> t, kind |-> "off", note |-> msg.note, vel |-> 0] >>,
                               !.notes_tmp = Append(@, [s |-> top.s,
                                                        d |-> Max2(MinNoteLen, t - top.s),
                                                        p |-> msg.note])]
                   ELSE s1
      ELSE s1

RECURSIVE LoadLoop(_, _, _)
LoadLoop(msgs, k, st) ==
  IF k > Len(msgs) THEN st ELSE LoadLoop(msgs, k + 1, LoadStep(st, msgs[k]))

\* next((t for t, k, *_ in events if k == "on"), 0.0)
RECURSIVE FirstOn(_, _)
FirstOn(events, k) ==
  IF k > Len(events) THEN 0
  ELSE IF events[k].kind = "on" THEN events[k].t
  ELSE FirstOn(events, k + 1)

\* Mutant: the first "on" taken from the events before they are sorted.
FromFileNoSort(msgs) ==
  LET st == LoadLoop(msgs, 1, LoadInit)
      sorted == SortByTime(st.events)
      first_on == FirstOn(st.events, 1)
      shift == first_on > 0
  IN  [loaded |-> TRUE,
       events |-> IF shift
                    THEN [k \in 1..Len(sorted) |-> [sorted[k] EXCEPT !.t = @ - first_on]]
                    ELSE sorted,
       notes |-> IF shift
                   THEN [k \in 1..Len(st.notes_tmp) |-> [st.notes_tmp[k] EXCEPT !.s = @ - first_on]]
                   ELSE st.notes_tmp,
       tempo_changes |-> IF shift
                           THEN [k \in 1..Len(st.tempo_changes) |->
                                   [st.tempo_changes[k] EXCEPT !.t = Max2(0, @ - first_on)]]
                           ELSE st.tempo_changes]

\* The MidiSummary of a file: events sorted by time, then everything shifted
\* so that the first "on" is at 0.
FromFile(msgs) ==
  LET st == LoadLoop(msgs, 1, LoadInit)
      sorted == SortByTime(st.events)
      first_on == FirstOn(sorted, 1)
      shift == first_on > 0
  IN  [loaded |-> TRUE,
       events |-> IF shift
                    THEN [k \in 1..Len(sorted) |-> [sorted[k] EXCEPT !.t = @ - first_on]]
                    ELSE sorted,
       notes |-> IF shift
                   THEN [k \in 1..Len(st.notes_tmp) |-> [st.notes_tmp[k] EXCEPT !.s = @ - first_on]]
                   ELSE st.notes_tmp,
       tempo_changes |-> IF shift
                           THEN [k \in 1..Len(st.tempo_changes) |->
                                   [st.tempo_changes[k] EXCEPT !.t = Max2(0, @ - first_on)]]
                           ELSE st.tempo_changes]

\* self.midi = None: no file loaded.
NoMidi == [loaded |-> FALSE, events |-> <<>>, notes |-> <<>>, tempo_changes |-> <<>>]

\* ------------------------------------------------------ build_click_events
\* Mutant: the beat index restarts at 0 with every tempo segment.
RECURSIVE ClickWalkRestart(_, _, _, _, _, _, _)
ClickWalkRestart(tc, end_time, bper, k, t, beat_idx, acc) ==
  IF k > Len(tc) THEN [status |-> "ok", ev |-> acc]
  ELSE LET t1 == IF k = Len(tc) THEN end_time ELSE tc[k + 1].t
           spb == tc[k].us \div 1000
       IN  IF t < t1 /\ t < end_time
             THEN IF bper = 0 THEN [status |-> "raise", ev |-> acc]
                  ELSE IF spb = 0 THEN [status |-> "hang", ev |-> acc]
                  ELSE LET is_downbeat == (beat_idx % bper = 0)
                           note == IF is_downbeat THEN CLICK_NOTE_STRONG ELSE CLICK_NOTE_WEAK
                           vel == IF is_downbeat THEN accent_vel ELSE weak_vel
                       IN  ClickWalkRestart(tc, end_time, bper, k, t + spb, beat_idx + 1,
                                     acc \o << [t |-> t, kind |-> "click_on", note |-> note,
                                                vel |-> vel, ch |-> ch9],
                                               [t |-> t + ClickLen, kind |-> "click_off",
                                                note |-> note, vel |-> 0, ch |-> ch9] >>)
             ELSE IF k = Len(tc) THEN [status |-> "ok", ev |-> acc]
                  ELSE ClickWalkRestart(tc, end_time, bper, k + 1, tc[k + 1].t, 0, acc)

\* The beats of the segments from index k on: the while loop of one segment,
\* then the next segment, the beat index carried over.  The result is
\* [status, ev]: "raise" when beat_idx % int(round(beats_per_measure)) divides
\* by zero, "hang" when the beat length is 0 and the loop never ends.
RECURSIVE ClickWalk(_, _, _, _, _, _, _)
ClickWalk(tc, end_time, bper, k, t, beat_idx, acc) ==
  IF k > Len(tc) THEN [status |-> "ok", ev |-> acc]
  ELSE LET t1 == IF k = Len(tc) THEN end_time ELSE tc[k + 1].t
           spb == tc[k].us \div 1000
       IN  IF t < t1 /\ t < end_time
             THEN IF bper = 0 THEN [status |-> "raise", ev |-> acc]
                  ELSE IF spb = 0 THEN [status |-> "hang", ev |-> acc]
                  ELSE LET is_downbeat == (beat_idx % bper = 0)
                           note == IF is_downbeat THEN CLICK_NOTE_STRONG ELSE CLICK_NOTE_WEAK
                           vel == IF is_downbeat THEN accent_vel ELSE weak_vel
                       IN  ClickWalk(tc, end_time, bper, k, t + spb, beat_idx + 1,
                                     acc \o << [t |-> t, kind |-> "click_on", note |-> note,
                                                vel |-> vel, ch |-> ch9],
                                               [t |-> t + ClickLen, kind |-> "click_off",
                                                note |-> note, vel |-> 0, ch |-> ch9] >>)
             ELSE IF k = Len(tc) THEN [status |-> "ok", ev |-> acc]
                  ELSE ClickWalk(tc, end_time, bper, k + 1, tc[k + 1].t, beat_idx, acc)

\* build_click_events(tempo_changes, end_time, beats_per_measure) with
\* beats_per_measure the rational bn/bd.
build_click_events(tempo_changes, end_time, bn, bd) ==
  IF tempo_changes = <<>> THEN [status |-> "ok", ev |-> <<>>]
  ELSE LET r == ClickWalk(tempo_changes, end_time, RoundHalfEven(bn, bd), 1,
                          tempo_changes[1].t, 0, <<>>)
       IN  [r EXCEPT !.ev = SortByTime(@)]

\* ------------------------------------------------------------ loaded files
\* One note: pitch 60 from 0 ms to 500 ms.
FileOneNote == << NoteOn(0, 60, 90), NoteOff(480, 60) >>

\* A re-trigger of pitch 60: begin at 0, begin at 125, end at 250, end at 500.
FileRetrigger == << NoteOn(0, 60, 90), NoteOn(120, 60, 80), NoteOff(120, 60), NoteOff(240, 60) >>

\* Two pitches after a leading rest of 500 ms: 60 from 0 to 500, 62 from 250
\* to 500.
FileTwoPitches == << NoteOn(480, 60, 90), NoteOn(240, 62, 70), NoteOff(240, 60), NoteOff(0, 62) >>

\* The sessions the model starts from: the loaded file (on_load_midi) or none,
\* the time signature of the spin boxes, and whether the synthesizer could be
\* built.  With 1/8 the metronome's beats_per_measure is 0.5.
Sessions ==
  { [file |-> FromFile(FileOneNote), ts |-> <<4, 4>>, synth |-> TRUE],
    [file |-> FromFile(FileRetrigger), ts |-> <<4, 4>>, synth |-> TRUE],
    [file |-> FromFile(FileTwoPitches), ts |-> <<4, 4>>, synth |-> TRUE],
    [file |-> NoMidi, ts |-> <<4, 4>>, synth |-> TRUE],
    [file |-> FromFile(FileOneNote), ts |-> <<1, 8>>, synth |-> TRUE],
    [file |-> FromFile(FileOneNote), ts |-> <<4, 4>>, synth |-> FALSE] }

\* Seek targets (_time_for_x of a click): left of the origin, inside the
\* notes of the files, beyond every play length.
SeekTargets == {0 - 500, 375, 4000}

\* ------------------------------------------------------------------- state
VARIABLES
  midi,             \* self.midi (a MidiSummary, or NoMidi)
  ts,               \* <<self.ts_num, self.ts_den>>
  metronome_on,     \* self.metronome_on
  synthOK,          \* whether FluidPlayer can be built (_ensure_synth returns it)
  now,              \* time.perf_counter(), in ms
  audio_thread,     \* self._audio_thread: 0 for None, else the unit's number
  stop_evt,         \* self._stop_evt
  pause_evt,        \* self._pause_evt
  start_t,          \* self._start_t
  paused_elapsed,   \* self._paused_elapsed (position_seconds)
  play_length_sec,  \* self._play_length_sec
  ctl,              \* the foreground (Tk) thread: idle, or blocked in join()
  units,            \* the background threads ever started
  sink,             \* the Sound Sink (FluidPlayer): who has it sounding
  nOps,             \* control operations made so far
  lastOp,           \* the control operation that returned last
  prevOp,           \* the one before it
  ui_after,         \* self._ui_after: whether a call of _ui_loop is scheduled
  track,            \* utils.py: mid.tracks[0], the messages of a MIDI file
  tq,               \* utils.py: the last current_tick_to_seconds calls made
  table,            \* utils.py: a tempo_changes list handed to current_tick_to_seconds
  ms,               \* utils.py: the outcome of get_measure_starts(mid)
  click_out,        \* the outcome of a call of build_click_events
  prime_out         \* the outcome of priming at an offset (lines 1325-1330)

vars == <<midi, ts, metronome_on, synthOK, now, audio_thread, stop_evt, pause_evt,
          start_t, paused_elapsed, play_length_sec, ctl, units, sink, nOps, lastOp, prevOp,
          ui_after, track, tq, table, ms, click_out, prime_out>>

\* What no action of the annotator changes.
env == <<midi, ts, synthOK, track, tq, table, ms, click_out, prime_out>>

\* The annotator's variables.
annotator == <<midi, ts, metronome_on, synthOK, now, audio_thread, stop_evt, pause_evt,
               start_t, paused_elapsed, play_length_sec, ctl, units, sink, nOps, lastOp, prevOp,
               ui_after>>

Units == 1..MaxRuns

NoUnit ==
  [pc |-> "none", by |-> "", want |-> 0, merged |-> <<>>, i |-> 0, i0 |-> 0,
   start_elapsed |-> 0, start |-> 0, primed |-> <<>>, sent |-> "none"]

CtlIdle == [pc |-> "idle", op |-> "", was_playing |-> FALSE, target |-> 0, t0 |-> 0, pre |-> ""]

NoOp == [op |-> "", pre |-> "", target |-> 0, offset |-> 0, join |-> "", unit |-> 0]

\* threading.Thread.is_alive(): started and not yet finished.
IsAlive(u) == units[u].pc \in {"merge", "loop"}

Alive == {u \in Units : IsAlive(u)}

Started == {u \in Units : units[u].pc # "none"}

\* The scheduler's state as the spec names it.
StateClass ==
  IF audio_thread = 0 THEN "Stopped"
  ELSE IF pause_evt THEN "Paused"
  ELSE IF IsAlive(audio_thread) THEN "Playing"
  ELSE "Ended"

\* No query of the tempo map yet.
NoQuery == [t1 |-> 0, r1 |-> [ok |-> FALSE, index |-> 0, seconds |-> 0],
            t2 |-> 0, r2 |-> [ok |-> FALSE, index |-> 0, seconds |-> 0], made |-> FALSE]

\* get_measure_starts not called yet.
NoMeasures == [made |-> FALSE, status |-> "", error |-> "", starts |-> <<>>]

\* build_click_events not called yet; no priming computed yet.
NoClicks == [made |-> FALSE, status |-> "", ev |-> <<>>]

NoPriming == [made |-> FALSE, t |-> 0, cmds |-> <<>>]

Init ==
  /\ track = <<>>
  /\ tq = NoQuery
  /\ table = <<>>
  /\ ms = NoMeasures
  /\ click_out = NoClicks
  /\ prime_out = NoPriming
  /\ \E s \in Sessions : midi = s.file /\ ts = s.ts /\ synthOK = s.synth
  /\ metronome_on = TRUE
  /\ now = 0
  /\ audio_thread = 0
  /\ stop_evt = FALSE
  /\ pause_evt = FALSE
  /\ start_t = 0
  /\ paused_elapsed = 0
  /\ play_length_sec = 0
  /\ ctl = CtlIdle
  /\ units = [u \in Units |-> NoUnit]
  /\ sink = [onSince |-> {}]
  /\ nOps = 0
  /\ lastOp = NoOp
  /\ prevOp = NoOp
  /\ ui_after = FALSE

\* ---------------------------------------------------------- the Sound Sink
\* One command received by the FluidPlayer: who sent it (0: the control path,
\* u: background unit u), the command, and for a live event its place in the
\* unit's merged stream (0 for a priming note-on).
AnoCmd(src) == [src |-> src, cmd |-> "ano", note |-> 0, ch |-> 0, idx |-> 0]

\* The sink after it has received the commands cmds, in order.  onSince is the
\* set of senders of the note-on commands received since the last
\* all-notes-off (FluidPlayer.all_notes_off clears what note_on has set).
RECURSIVE Receive(_, _, _)
Receive(sk, cmds, k) ==
  IF k > Len(cmds) THEN sk
  ELSE Receive(IF cmds[k].cmd = "ano" THEN [onSince |-> {}]
               ELSE IF cmds[k].cmd = "on" THEN [onSince |-> sk.onSince \cup {cmds[k].src}]
               ELSE sk,
               cmds, k + 1)

\* The last command of cmds, or old when there is none.
LastSent(old, cmds) == IF cmds = <<>> THEN old ELSE cmds[Len(cmds)].cmd

\* The notes of the note-on commands of cmds.
NotesOn(cmds) ==
  LET ons == SelectSeq(cmds, LAMBDA c : c.cmd = "on")
  IN  [k \in 1..Len(ons) |-> ons[k].note]

\* DAWAnnotator._all_notes_off: the commands it sends, none when there is
\* no synthesizer.
AllNotesOff(src) == IF synthOK THEN << AnoCmd(src) >> ELSE <<>>

\* -------------------------------------------------- _audio_loop, the set-up
\* beats_per_measure = (4 / tsd) * tsn as the rational bn / bd
BeatsNum == 4 * ts[1]

BeatsDen == ts[2]

\* Mutant: the merged stream without merged.sort.
BuildMergedUnsorted ==
  LET base == IF midi.loaded /\ midi.events # <<>>
                THEN [k \in 1..Len(midi.events) |->
                        [t |-> midi.events[k].t, kind |-> midi.events[k].kind,
                         note |-> midi.events[k].note, vel |-> midi.events[k].vel, ch |-> 0]]
                ELSE <<>>
      clicks == IF metronome_on /\ midi.loaded
                  THEN build_click_events(midi.tempo_changes, play_length_sec, BeatsNum, BeatsDen)
                  ELSE [status |-> "ok", ev |-> <<>>]
  IN  [status |-> clicks.status, ev |-> base \o clicks.ev]

\* Mutant: the click events merged whatever the metronome check box says.
BuildMergedAlwaysClicks ==
  LET base == IF midi.loaded /\ midi.events # <<>>
                THEN [k \in 1..Len(midi.events) |->
                        [t |-> midi.events[k].t, kind |-> midi.events[k].kind,
                         note |-> midi.events[k].note, vel |-> midi.events[k].vel, ch |-> 0]]
                ELSE <<>>
      clicks == IF midi.loaded
                  THEN build_click_events(midi.tempo_changes, play_length_sec, BeatsNum, BeatsDen)
                  ELSE [status |-> "ok", ev |-> <<>>]
  IN  [status |-> clicks.status, ev |-> SortByTime(base \o clicks.ev)]

\* Lines 1305-1319: the merged stream of a run (note events on channel 0,
\* clicks when the metronome is on and a file is loaded), sorted by time.
BuildMerged ==
  LET base == IF midi.loaded /\ midi.events # <<>>
                THEN [k \in 1..Len(midi.events) |->
                        [t |-> midi.events[k].t, kind |-> midi.events[k].kind,
                         note |-> midi.events[k].note, vel |-> midi.events[k].vel, ch |-> 0]]
                ELSE <<>>
      tchanges == IF midi.tempo_changes # <<>> THEN midi.tempo_changes
                  ELSE << [t |-> 0, us |-> 60000000 \div Max2(1, bpm)] >>
      clicks == IF metronome_on /\ midi.loaded
                  THEN build_click_events(tchanges, play_length_sec, BeatsNum, BeatsDen)
                  ELSE [status |-> "ok", ev |-> <<>>]
  IN  [status |-> clicks.status, ev |-> SortByTime(base \o clicks.ev)]

\* bisect.bisect_left(times, t): the number of leading events with time < t.
RECURSIVE BisectLeft(_, _, _, _)
BisectLeft(a, x, lo, hi) ==
  IF lo < hi
    THEN LET mid == (lo + hi) \div 2
         IN  IF a[mid + 1].t < x THEN BisectLeft(a, x, mid + 1, hi)
             ELSE BisectLeft(a, x, lo, mid)
    ELSE lo

_find_event_start_index(merged, t) == BisectLeft(merged, t, 0, Len(merged))

\* A dict kept in insertion order, as a sequence of [note, vel].
DictHas(d, key) == \E j \in 1..Len(d) : d[j].note = key

DictSet(d, key, val) ==
  IF DictHas(d, key)
    THEN [j \in 1..Len(d) |-> IF d[j].note = key THEN [note |-> key, vel |-> val] ELSE d[j]]
    ELSE Append(d, [note |-> key, vel |-> val])

DictPop(d, key) == SelectSeq(d, LAMBDA e : e.note # key)

RECURSIVE ActiveWalk(_, _, _, _)
ActiveWalk(events, k, t, active) ==
  IF k > Len(events) THEN active
  ELSE IF events[k].t > t THEN active
  ELSE IF events[k].kind = "on"
    THEN ActiveWalk(events, k + 1, t, DictSet(active, events[k].note, Max2(1, events[k].vel)))
  ELSE IF events[k].kind = "off"
    THEN ActiveWalk(events, k + 1, t, DictPop(active, events[k].note))
  ELSE ActiveWalk(events, k + 1, t, active)

_compute_active_notes_at(t) ==
  IF ~(midi.loaded /\ midi.events # <<>>) THEN <<>>
  ELSE ActiveWalk(midi.events, 1, t, <<>>)

\* Lines 1326-1330: all-notes-off, then a note-on for every active note.
PrimeCmds(u, t) ==
  IF synthOK /\ midi.loaded /\ midi.events # <<>>
    THEN LET active == _compute_active_notes_at(t)
         IN  << AnoCmd(u) >> \o
             [j \in 1..Len(active) |->
                [src |-> u, cmd |-> "on", note |-> active[j].note, ch |-> 0, idx |-> 0]]
    ELSE <<>>

\* ------------------------------------------------ _audio_loop, the loop body
\* while i < len(merged) and merged[i][0] <= elapsed: the index after the
\* events that are due.
RECURSIVE DueEnd(_, _, _)
DueEnd(merged, i, elapsed) ==
  IF i < Len(merged) /\ merged[i + 1].t <= elapsed
    THEN DueEnd(merged, i + 1, elapsed)
    ELSE i

\* Mutant: the dispatch without its "if fs" test.
DispatchCmdsUnguarded(u, merged, i, j) ==
  [k \in 1..(j - i) |->
     [src |-> u,
      cmd |-> IF merged[i + k].kind \in {"on", "click_on"} THEN "on" ELSE "off",
      note |-> merged[i + k].note, ch |-> merged[i + k].ch,
      idx |-> i + k]]

\* Lines 1343-1347: what the sink receives for merged events i+1..j.
DispatchCmds(u, merged, i, j) ==
  IF synthOK
    THEN [k \in 1..(j - i) |->
            [src |-> u,
             cmd |-> IF merged[i + k].kind \in {"on", "click_on"} THEN "on" ELSE "off",
             note |-> merged[i + k].note, ch |-> merged[i + k].ch,
             idx |-> i + k]]
    ELSE <<>>

\* elapsed = (time.perf_counter() - start) + start_elapsed
Elapsed(u) == (now - units[u].start) + units[u].start_elapsed

\* Lines 1305-1332, the thread's set-up: build the merged stream, read the
\* offset, find the start index, prime, take the start reference.  An
\* exception while merging is outside the try block: the thread dies without
\* running the finally clause.
UnitSetup(u) ==
  /\ units[u].pc = "merge"
  /\ LET m == BuildMerged
         start_elapsed == paused_elapsed
         i == _find_event_start_index(m.ev, start_elapsed)
     IN  /\ m.status # "hang"
         /\ IF m.status = "ok"
              THEN /\ units' = [units EXCEPT ![u].pc = "loop", ![u].merged = m.ev,
                                             ![u].start_elapsed = start_elapsed,
                                             ![u].i = i, ![u].i0 = i, ![u].start = now,
                                             ![u].primed = NotesOn(PrimeCmds(u, start_elapsed)),
                                             ![u].sent = LastSent(@, PrimeCmds(u, start_elapsed))]
                   /\ sink' = Receive(sink, PrimeCmds(u, start_elapsed), 1)
              ELSE /\ units' = [units EXCEPT ![u].pc = "crashed"]
                   /\ UNCHANGED sink
  /\ UNCHANGED <<env, ui_after, metronome_on, now, audio_thread, stop_evt, pause_evt, start_t,
                 paused_elapsed, play_length_sec, ctl, nOps, lastOp, prevOp>>

\* "while not self._stop_evt.is_set()" fails: the finally clause, then exit.
UnitStop(u) ==
  /\ units[u].pc = "loop"
  /\ stop_evt
  /\ units' = [units EXCEPT ![u].pc = "done", ![u].sent = LastSent(@, AllNotesOff(u))]
  /\ sink' = Receive(sink, AllNotesOff(u), 1)
  /\ UNCHANGED <<env, ui_after, metronome_on, now, audio_thread, stop_evt, pause_evt, start_t,
                 paused_elapsed, play_length_sec, ctl, nOps, lastOp, prevOp>>

\* Mutant: a run that ends by itself rewinds the position to 0.
UnitEndRewinds(u) ==
  /\ units[u].pc = "loop"
  /\ ~stop_evt
  /\ ~pause_evt
  /\ Elapsed(u) >= play_length_sec
  /\ units' = [units EXCEPT ![u].pc = "done", ![u].sent = LastSent(@, AllNotesOff(u))]
  /\ sink' = Receive(sink, AllNotesOff(u), 1)
  /\ paused_elapsed' = 0
  /\ UNCHANGED <<env, ui_after, metronome_on, now, audio_thread, stop_evt, pause_evt, start_t,
                 play_length_sec, ctl, nOps, lastOp, prevOp>>

\* elapsed >= self._play_length_sec: break, the finally clause, then exit.
UnitEnd(u) ==
  /\ units[u].pc = "loop"
  /\ ~stop_evt
  /\ ~pause_evt
  /\ Elapsed(u) >= play_length_sec
  /\ units' = [units EXCEPT ![u].pc = "done", ![u].sent = LastSent(@, AllNotesOff(u))]
  /\ sink' = Receive(sink, AllNotesOff(u), 1)
  /\ UNCHANGED <<env, ui_after, metronome_on, now, audio_thread, stop_evt, pause_evt, start_t,
                 paused_elapsed, play_length_sec, ctl, nOps, lastOp, prevOp>>

\* One pass of the loop that finds events due: dispatch them all.  (A pass
\* that finds the unit paused, or nothing due, changes nothing.)
UnitDispatch(u) ==
  /\ units[u].pc = "loop"
  /\ ~stop_evt
  /\ ~pause_evt
  /\ Elapsed(u) < play_length_sec
  /\ LET i == units[u].i
         j == DueEnd(units[u].merged, i, Elapsed(u))
     IN  /\ j > i
         /\ units' = [units EXCEPT ![u].i = j,
                                   ![u].sent = LastSent(@, DispatchCmds(u, units[u].merged, i, j))]
         /\ sink' = Receive(sink, DispatchCmds(u, units[u].merged, i, j), 1)
  /\ UNCHANGED <<env, ui_after, metronome_on, now, audio_thread, stop_evt, pause_evt, start_t,
                 paused_elapsed, play_length_sec, ctl, nOps, lastOp, prevOp>>

\* The clock, sampled every JoinTimeout ms.
TickStep == JoinTimeout

Tick ==
  /\ now < MaxTicks * TickStep
  /\ now' = now + TickStep
  /\ UNCHANGED <<env, ui_after, metronome_on, audio_thread, stop_evt, pause_evt, start_t,
                 paused_elapsed, play_length_sec, ctl, units, sink, nOps, lastOp, prevOp>>

\* ------------------------------------------------------ control operations
\* max(t for t, *_ in events)
RECURSIVE MaxEventTime(_, _, _)
MaxEventTime(events, k, m) ==
  IF k > Len(events) THEN m
  ELSE MaxEventTime(events, k + 1, Max2(m, events[k].t))

\* measure_len_sec(): (60 / bpm) * (4 / tsd) * tsn
measure_len_sec == (60000 * 4 * ts[1]) \div (bpm * ts[2])

\* on_play, lines 1243-1246: the total play length
PlayLength ==
  IF midi.loaded /\ midi.events # <<>>
    THEN MaxEventTime(midi.events, 2, midi.events[1].t) + TrailSilence
    ELSE measure_len_sec * total_measures

\* Mutant: _set_playhead_time without the clamp at 0.
SetPlayheadUnclamped(sec) == sec

\* _set_playhead_time(sec): the position it stores
_set_playhead_time(sec) == Max2(0, sec)

\* on_canvas_seek, line 1031
was_playing == audio_thread # 0 /\ IsAlive(audio_thread) /\ ~pause_evt

\* on_pause, line 1257
PausedOffset == paused_elapsed + (now - start_t)

\* _stop_and_join_audio, line 339: whether the handler has to join
NeedJoin == audio_thread # 0 /\ IsAlive(audio_thread)

\* threading.Thread(target=self._audio_loop).start(): the new unit.  by and
\* want record which operation started it and the position it was started at.
NewUnit(by, pos) == [NoUnit EXCEPT !.pc = "merge", !.by = by, !.want = pos]

\* Whether the handler of op ends in on_play
Restarts(op, wp) == op \in {"play", "resume"} \/ (op = "seek" /\ wp)

\* Mutant: on_stop without its _set_playhead_time(0.0).
PositionAfterNoReset(op, T) ==
  IF op = "seek" THEN _set_playhead_time(T) ELSE paused_elapsed

\* The position the handler of op leaves
PositionAfter(op, T) ==
  IF op = "stop" THEN _set_playhead_time(0)
  ELSE IF op = "seek" THEN _set_playhead_time(T)
  ELSE paused_elapsed

\* Mutant: _stop_and_join_audio without its _all_notes_off().
ControlSilenceNone(op, wp) == <<>>

\* All-notes-off commands of the control path: one per _stop_and_join_audio
\* (a seek that restarts runs it twice, the second time inside on_play).
ControlSilence(op, wp) ==
  IF op = "seek" /\ wp THEN AllNotesOff(0) \o AllNotesOff(0) ELSE AllNotesOff(0)

\* What a handler does once join() has returned (or was not needed):
\* _stop_and_join_audio lines 345-349, then the rest of the handler.
Finish(op, wp, T, pre, offset, join) ==
  LET id == Cardinality(Started) + 1
      pos == PositionAfter(op, T)
  IN  /\ stop_evt' = FALSE
      /\ pause_evt' = FALSE
      /\ sink' = Receive(sink, ControlSilence(op, wp), 1)
      /\ paused_elapsed' = pos
      /\ ctl' = CtlIdle
      /\ prevOp' = lastOp
      /\ IF Restarts(op, wp)
           THEN /\ play_length_sec' = PlayLength
                /\ start_t' = now
                /\ audio_thread' = id
                /\ units' = [units EXCEPT ![id] = NewUnit(op, pos)]
                /\ lastOp' = [op |-> op, pre |-> pre, target |-> T, offset |-> offset,
                              join |-> join, unit |-> id]
           ELSE /\ audio_thread' = 0
                /\ lastOp' = [op |-> op, pre |-> pre, target |-> T, offset |-> offset,
                              join |-> join, unit |-> 0]
                /\ UNCHANGED <<play_length_sec, start_t, units>>
      /\ ui_after' = Restarts(op, wp)
      /\ UNCHANGED <<env, metronome_on, now>>

\* A handler that starts with _stop_and_join_audio: it blocks in join() when
\* a live thread is registered, and runs to its end otherwise.
StartOp(op, T) ==
  /\ ctl.pc = "idle"
  /\ nOps < MaxOps
  /\ Restarts(op, was_playing) => Cardinality(Started) < MaxRuns
  /\ nOps' = nOps + 1
  /\ IF NeedJoin
       THEN /\ stop_evt' = TRUE
            /\ ctl' = [pc |-> "join", op |-> op, was_playing |-> was_playing, target |-> T,
                       t0 |-> now, pre |-> StateClass]
            /\ UNCHANGED <<env, ui_after, metronome_on, now, audio_thread, pause_evt, start_t,
                           paused_elapsed, play_length_sec, units, sink, lastOp, prevOp>>
       ELSE Finish(op, was_playing, T, StateClass, paused_elapsed, "none")

on_play == StartOp("play", 0)

on_stop == StartOp("stop", 0)

on_canvas_seek == \E T \in SeekTargets : StartOp("seek", T)

\* on_pause: nothing without a thread object, pause when not paused, else
\* on_play (resume).
on_pause ==
  /\ ctl.pc = "idle"
  /\ nOps < MaxOps
  /\ \/ /\ audio_thread = 0
        /\ nOps' = nOps + 1
        /\ lastOp' = [op |-> "pause_noop", pre |-> StateClass, target |-> 0,
                      offset |-> paused_elapsed, join |-> "none", unit |-> 0]
        /\ prevOp' = lastOp
        /\ UNCHANGED <<env, ui_after, metronome_on, now, audio_thread, stop_evt, pause_evt, start_t,
                       paused_elapsed, play_length_sec, ctl, units, sink>>
     \/ /\ audio_thread # 0
        /\ ~pause_evt
        /\ nOps' = nOps + 1
        /\ paused_elapsed' = PausedOffset
        /\ pause_evt' = TRUE
        /\ lastOp' = [op |-> "pause", pre |-> StateClass, target |-> 0,
                      offset |-> paused_elapsed, join |-> "none", unit |-> audio_thread]
        /\ prevOp' = lastOp
        /\ UNCHANGED <<env, ui_after, metronome_on, now, audio_thread, stop_evt, start_t,
                       play_length_sec, ctl, units, sink>>
     \/ /\ audio_thread # 0
        /\ pause_evt
        /\ StartOp("resume", 0)

\* join() returns because the thread has finished.
JoinDone ==
  /\ ctl.pc = "join"
  /\ ~IsAlive(audio_thread)
  /\ Finish(ctl.op, ctl.was_playing, ctl.target, ctl.pre, paused_elapsed, "joined")
  /\ UNCHANGED nOps

\* join(timeout=0.5) returns with the thread still alive.
JoinTimedOut ==
  /\ ctl.pc = "join"
  /\ IsAlive(audio_thread)
  /\ now - ctl.t0 >= JoinTimeout
  /\ Finish(ctl.op, ctl.was_playing, ctl.target, ctl.pre, paused_elapsed, "timeout")
  /\ UNCHANGED nOps

Next ==
  \/ on_play
  \/ on_pause
  \/ on_stop
  \/ on_canvas_seek
  \/ JoinDone
  \/ JoinTimedOut
  \/ Tick
  \/ \E u \in Units : UnitSetup(u)
  \/ \E u \in Units : UnitStop(u)
  \/ \E u \in Units : UnitEnd(u)
  \/ \E u \in Units : UnitDispatch(u)

Spec == Init /\ [][Next]_vars

\* ====================================================== utils.py: tempo map
\* Seconds are kept exact: a time is the numerator of a fraction whose
\* denominator is ticks_per_beat * 1000000, so that
\* ticks / ticks_per_beat * microseconds_per_beat / 1000000 is
\* ticks * microseconds_per_beat over that denominator.
MaxTrackLen == 3
MaxQueryTick == 7

\* The delta times and the tempos of the messages of track 0 (mido reads a
\* set_tempo of 0 microseconds per beat as it reads any other).
Deltas == {0, 2}

Tempos == {0, 250000, 500000}

TrackMsgs ==
  {SetTempo(dt, us) : dt \in Deltas, us \in Tempos} \cup {NoteOn(dt, 60, 90) : dt \in Deltas}

Tracks == UNION {[1..n -> TrackMsgs] : n \in 0..MaxTrackLen}

\* ticks_to_seconds(ticks, ticks_per_beat, microseconds_per_beat)
ticks_to_seconds(ticks, tpb, us) == ticks * us

\* Mutant: the time of a delta computed at the tempo the message sets.
RECURSIVE TempoWalkNewTempo(_, _, _, _, _, _)
TempoWalkNewTempo(trk, k, cur_us, cur_tick, cur_sec, acc) ==
  IF k > Len(trk) THEN acc
  ELSE LET msg == trk[k]
           tick == cur_tick + msg.time
           us == IF msg.type = "set_tempo" THEN msg.tempo ELSE cur_us
           sec == cur_sec + ticks_to_seconds(msg.time, TicksPerBeat, us)
       IN  IF msg.type = "set_tempo"
             THEN TempoWalkNewTempo(trk, k + 1, msg.tempo, tick, sec,
                                    Append(acc, [tick |-> tick, us |-> msg.tempo, sec |-> sec]))
             ELSE TempoWalkNewTempo(trk, k + 1, cur_us, tick, sec, acc)

\* get_measure_starts, lines 89-102: the walk over track 0 that builds
\* tempo_changes, entries (tick, microseconds_per_beat, seconds).
RECURSIVE TempoWalk(_, _, _, _, _, _)
TempoWalk(trk, k, cur_us, cur_tick, cur_sec, acc) ==
  IF k > Len(trk) THEN acc
  ELSE LET msg == trk[k]
           tick == cur_tick + msg.time
           sec == cur_sec + ticks_to_seconds(msg.time, TicksPerBeat, cur_us)
       IN  IF msg.type = "set_tempo"
             THEN TempoWalk(trk, k + 1, msg.tempo, tick, sec,
                            Append(acc, [tick |-> tick, us |-> msg.tempo, sec |-> sec]))
             ELSE TempoWalk(trk, k + 1, cur_us, tick, sec, acc)

tempo_changes(trk) == TempoWalk(trk, 1, default_tempo, 0, 0, <<>>)

\* Mutant: bisect_left in place of bisect_right.
RECURSIVE bisect_left_ticks(_, _, _, _)
bisect_left_ticks(a, x, lo, hi) ==
  IF lo >= hi THEN lo
  ELSE LET mid == (lo + hi) \div 2
       IN  IF a[mid + 1].tick < x THEN bisect_left_ticks(a, x, mid + 1, hi)
           ELSE bisect_left_ticks(a, x, lo, mid)

\* bisect.bisect_right over the start ticks (a[mid + 1] is Python's a[mid]).
RECURSIVE bisect_right(_, _, _, _)
bisect_right(a, x, lo, hi) ==
  IF lo >= hi THEN lo
  ELSE LET mid == (lo + hi) \div 2
       IN  IF x < a[mid + 1].tick THEN bisect_right(a, x, lo, mid)
           ELSE bisect_right(a, x, mid + 1, hi)

\* current_tick_to_seconds(current_tick, tempo_changes, ticks_per_beat):
\* ok is FALSE when find_le raises ValueError; index is the i of find_le
\* (the 1-based position of the segment used).
current_tick_to_seconds(current_tick, tc, tpb) ==
  LET i == bisect_right(tc, current_tick, 0, Len(tc))
  IN  IF i # 0
        THEN [ok |-> TRUE, index |-> i,
              seconds |-> tc[i].sec + ticks_to_seconds(current_tick - tc[i].tick, tpb, tc[i].us)]
        ELSE [ok |-> FALSE, index |-> 0, seconds |-> 0]

\* The annotator as constructed, idle, with no file loaded.
AnnotatorIdle ==
  /\ midi = NoMidi
  /\ ts = <<4, 4>>
  /\ synthOK = TRUE
  /\ metronome_on = TRUE
  /\ now = 0
  /\ audio_thread = 0
  /\ stop_evt = FALSE
  /\ pause_evt = FALSE
  /\ start_t = 0
  /\ paused_elapsed = 0
  /\ play_length_sec = 0
  /\ ctl = CtlIdle
  /\ units = [u \in Units |-> NoUnit]
  /\ sink = [onSince |-> {}]
  /\ nOps = 0
  /\ lastOp = NoOp
  /\ prevOp = NoOp
  /\ ui_after = FALSE

InitTempo ==
  /\ track \in Tracks
  /\ tq = NoQuery
  /\ table = <<>>
  /\ ms = NoMeasures
  /\ click_out = NoClicks
  /\ prime_out = NoPriming
  /\ midi = NoMidi
  /\ ts = <<4, 4>>
  /\ synthOK = TRUE
  /\ metronome_on = TRUE
  /\ now = 0
  /\ audio_thread = 0
  /\ stop_evt = FALSE
  /\ pause_evt = FALSE
  /\ start_t = 0
  /\ paused_elapsed = 0
  /\ play_length_sec = 0
  /\ ctl = CtlIdle
  /\ units = [u \in Units |-> NoUnit]
  /\ sink = [onSince |-> {}]
  /\ nOps = 0
  /\ lastOp = NoOp
  /\ prevOp = NoOp
  /\ ui_after = FALSE

\* Two calls of current_tick_to_seconds on the tempo map of the track.
Query ==
  /\ ~tq.made
  /\ \E t1 \in 0..MaxQueryTick, t2 \in 0..MaxQueryTick :
       tq' = [t1 |-> t1,
              r1 |-> current_tick_to_seconds(t1, tempo_changes(track), TicksPerBeat),
              t2 |-> t2,
              r2 |-> current_tick_to_seconds(t2, tempo_changes(track), TicksPerBeat),
              made |-> TRUE]
  /\ UNCHANGED <<track, table, ms, click_out, prime_out, annotator>>

NextTempo == Query

SpecTempo == InitTempo /\ [][NextTempo]_vars

\* ------------------------------------------- utils.py: get_measure_starts
MaxMeasureMsgs == 4

TimeSig(dt, n, d) ==
  [time |-> dt, type |-> "time_signature", note |-> 0, velocity |-> 0, tempo |-> 0,
   numerator |-> n, denominator |-> d]

\* Tracks with tempo changes and time signatures; a delta of 480 ticks is
\* one 1/4 measure at 480 ticks per beat, and two thirds of a 3/8 measure.
MeasureDeltas == {0, 480}

MeasureMsgs ==
  {SetTempo(dt, us) : dt \in MeasureDeltas, us \in {250000, 500000}}
    \cup {TimeSig(dt, 1, 4) : dt \in MeasureDeltas}
    \cup {TimeSig(dt, 3, 8) : dt \in MeasureDeltas}
    \cup {NoteOn(dt, 60, 90) : dt \in MeasureDeltas}

MeasureTracks == UNION {[1..n -> MeasureMsgs] : n \in 0..MaxMeasureMsgs}

\* Lines 93-105: time_signature_changes, entries (numerator, denominator,
\* tick, seconds), in the same walk as tempo_changes.
RECURSIVE TimeSigWalk(_, _, _, _, _, _)
TimeSigWalk(trk, k, cur_us, cur_tick, cur_sec, acc) ==
  IF k > Len(trk) THEN acc
  ELSE LET msg == trk[k]
           tick == cur_tick + msg.time
           sec == cur_sec + ticks_to_seconds(msg.time, TicksPerBeat, cur_us)
           us == IF msg.type = "set_tempo" THEN msg.tempo ELSE cur_us
       IN  IF msg.type = "time_signature"
             THEN TimeSigWalk(trk, k + 1, us, tick, sec,
                              Append(acc, [numerator |-> msg.numerator,
                                           denominator |-> msg.denominator,
                                           tick |-> tick, sec |-> sec]))
             ELSE TimeSigWalk(trk, k + 1, us, tick, sec, acc)

time_signature_changes(trk) == TimeSigWalk(trk, 1, default_tempo, 0, 0, <<>>)

\* current_tick and current_time_in_seconds after the walk (line 109).
RECURSIVE EndOfTrack(_, _, _, _, _)
EndOfTrack(trk, k, cur_us, cur_tick, cur_sec) ==
  IF k > Len(trk) THEN [tick |-> cur_tick, sec |-> cur_sec]
  ELSE LET msg == trk[k]
       IN  EndOfTrack(trk, k + 1,
                      IF msg.type = "set_tempo" THEN msg.tempo ELSE cur_us,
                      cur_tick + msg.time,
                      cur_sec + ticks_to_seconds(msg.time, TicksPerBeat, cur_us))

\* Mutant: ticks_per_measure without the factor 4 (quarter notes per whole).
TicksPerMeasureNoWhole(numerator, denominator) ==
  (numerator * TicksPerBeat) \div denominator

\* Line 120: int(numerator * mid.ticks_per_beat * 4 / denominator), for the
\* positive denominators mido yields.
ticks_per_measure(numerator, denominator) ==
  (numerator * TicksPerBeat * 4) \div denominator

\* Lines 123-126: range(current_tick, next_tick, ticks_per_measure) and the
\* conversion of each measure start; acc is [status, error, starts].
RECURSIVE MeasureRange(_, _, _, _, _)
MeasureRange(tc, tick, next_tick, step, acc) ==
  IF tick >= next_tick THEN acc
  ELSE LET r == current_tick_to_seconds(tick, tc, TicksPerBeat)
       IN  IF ~r.ok
             THEN [acc EXCEPT !.status = "raise", !.error = "ValueError"]
             ELSE MeasureRange(tc, tick + step, next_tick, step,
                               [acc EXCEPT !.starts = Append(@, [tick |-> tick, sec |-> r.seconds])])

\* Lines 114-126: the loop over the time-signature segments.
RECURSIVE MeasureSegments(_, _, _, _)
MeasureSegments(tc, tsc, i, acc) ==
  IF i > Len(tsc) - 1 \/ acc.status = "raise" THEN acc
  ELSE LET step == ticks_per_measure(tsc[i].numerator, tsc[i].denominator)
       IN  IF step = 0
             THEN [acc EXCEPT !.status = "raise", !.error = "ValueError"]
             ELSE MeasureSegments(tc, tsc, i + 1,
                                  MeasureRange(tc, tsc[i].tick, tsc[i + 1].tick, step, acc))

\* get_measure_starts(mid): measure n is starts[n].  Without a
\* time_signature message last_numerator is unbound at line 109.
get_measure_starts(trk) ==
  LET tsc == time_signature_changes(trk)
      end == EndOfTrack(trk, 1, default_tempo, 0, 0)
      last == tsc[Len(tsc)]
  IN  IF tsc = <<>>
        THEN [made |-> TRUE, status |-> "raise", error |-> "UnboundLocalError", starts |-> <<>>]
        ELSE MeasureSegments(tempo_changes(trk),
                             Append(tsc, [numerator |-> last.numerator,
                                          denominator |-> last.denominator,
                                          tick |-> end.tick, sec |-> end.sec]),
                             1,
                             [made |-> TRUE, status |-> "ok", error |-> "", starts |-> <<>>])

\* Reverse of a list: a tempo table whose segments come in descending order.
Reversed(s) == [k \in 1..Len(s) |-> s[Len(s) + 1 - k]]

InitMeasures ==
  /\ track \in MeasureTracks
  /\ table \in {tempo_changes(track), Reversed(tempo_changes(track))}
  /\ tq = NoQuery
  /\ ms = NoMeasures
  /\ click_out = NoClicks
  /\ prime_out = NoPriming
  /\ AnnotatorIdle

\* get_measure_starts(mid) on the track.
MeasureStarts ==
  /\ ~ms.made
  /\ ms' = get_measure_starts(track)
  /\ UNCHANGED <<track, table, tq, click_out, prime_out, annotator>>

\* current_tick_to_seconds on the table handed in by the caller.
Lookup ==
  /\ ~tq.made
  /\ \E t1 \in {0, 480}, t2 \in {480, 960} :
       tq' = [t1 |-> t1, r1 |-> current_tick_to_seconds(t1, table, TicksPerBeat),
              t2 |-> t2, r2 |-> current_tick_to_seconds(t2, table, TicksPerBeat),
              made |-> TRUE]
  /\ UNCHANGED <<track, table, ms, click_out, prime_out, annotator>>

NextMeasures == MeasureStarts \/ Lookup

SpecMeasures == InitMeasures /\ [][NextMeasures]_vars

\* ------------------------------------------- loading a file of note events
MaxNoteMsgs == 4

\* Merged tracks of note messages: two pitches, note_on with velocity 0 as
\* a note end, a change to 60 bpm, deltas of 0 or 120 ticks (125 ms at the
\* default tempo, 250 ms at 60 bpm).
NoteDeltas == {0, 120}

NoteMsgs ==
  {NoteOn(dt, p, v) : dt \in NoteDeltas, p \in Pitches, v \in {0, 90}}
    \cup {NoteOff(dt, p) : dt \in NoteDeltas, p \in Pitches}
    \cup {SetTempo(dt, 1000000) : dt \in NoteDeltas}

NoteTracks == UNION {[1..n -> NoteMsgs] : n \in 0..MaxNoteMsgs}

InitLoad ==
  /\ track \in NoteTracks
  /\ table = <<>>
  /\ tq = NoQuery
  /\ ms = NoMeasures
  /\ click_out = NoClicks
  /\ prime_out = NoPriming
  /\ AnnotatorIdle

\* on_open_midi: self.midi = MidiSummary.from_file(path)
Load ==
  /\ ~midi.loaded
  /\ midi' = FromFile(track)
  /\ UNCHANGED <<ts, metronome_on, synthOK, now, audio_thread, stop_evt, pause_evt, start_t,
                 paused_elapsed, play_length_sec, ctl, units, sink, nOps, lastOp, prevOp,
                 ui_after, track, tq, table, ms, click_out, prime_out>>

\* Start offsets of a run, in ms: on, between and after the event times
\* (multiples of 125 ms).
PrimeOffsets == {0, 125, 200, 250, 375}

\* _audio_loop, lines 1322-1330, of a run started at offset t on the loaded
\* file: the priming commands that reach the synthesizer.
Prime ==
  /\ midi.loaded
  /\ ~prime_out.made
  /\ \E t \in PrimeOffsets :
       prime_out' = [made |-> TRUE, t |-> t, cmds |-> PrimeCmds(1, t)]
  /\ UNCHANGED <<midi, ts, metronome_on, synthOK, now, audio_thread, stop_evt, pause_evt,
                 start_t, paused_elapsed, play_length_sec, ctl, units, sink, nOps, lastOp,
                 prevOp, ui_after, track, tq, table, ms, click_out>>

NextLoad == Load \/ Prime

SpecLoad == InitLoad /\ [][NextLoad]_vars

\* ------------------------------------------------- calls of the click generator
MaxClickSegs == 2

\* Tempo tables as from_file leaves them: the first segment at 0, the times
\* in ascending order; end times; time signatures of the two spinboxes.
ClickSegs == [t : {0, 750, 1000}, us : {250000, 500000}]

ClickTables ==
  {tc \in UNION {[1..n -> ClickSegs] : n \in 1..MaxClickSegs} :
     /\ tc[1].t = 0
     /\ \A k \in 1..(Len(tc) - 1) : tc[k].t <= tc[k + 1].t}

ClickEndTimes == {0, 1500, 2500}

ClickSignatures == {<<4, 4>>, <<3, 4>>, <<5, 8>>, <<1, 8>>}

InitClicks ==
  /\ midi \in [loaded : {TRUE}, events : {<<>>}, notes : {<<>>}, tempo_changes : ClickTables]
  /\ ts \in ClickSignatures
  /\ play_length_sec \in ClickEndTimes
  /\ track = <<>>
  /\ table = <<>>
  /\ tq = NoQuery
  /\ ms = NoMeasures
  /\ click_out = NoClicks
  /\ prime_out = NoPriming
  /\ synthOK = TRUE
  /\ metronome_on = TRUE
  /\ now = 0
  /\ audio_thread = 0
  /\ stop_evt = FALSE
  /\ pause_evt = FALSE
  /\ start_t = 0
  /\ paused_elapsed = 0
  /\ ctl = CtlIdle
  /\ units = [u \in Units |-> NoUnit]
  /\ sink = [onSince |-> {}]
  /\ nOps = 0
  /\ lastOp = NoOp
  /\ prevOp = NoOp
  /\ ui_after = FALSE

\* _audio_loop, lines 1309-1317: build_click_events(tchanges, end_time, bpmr)
GenerateClicks ==
  /\ ~click_out.made
  /\ LET r == build_click_events(midi.tempo_changes, play_length_sec, BeatsNum, BeatsDen)
     IN  click_out' = [made |-> TRUE, status |-> r.status, ev |-> r.ev]
  /\ UNCHANGED <<track, table, tq, ms, prime_out, annotator>>

NextClicks == GenerateClicks

SpecClicks == InitClicks /\ [][NextClicks]_vars

\* ------------------------------------------ runs with the metronome toggled
\* The Metronome check box (line 384), clicked between two handlers.
ToggleMetronome ==
  /\ ctl.pc = "idle"
  /\ metronome_on' = ~metronome_on
  /\ UNCHANGED <<env, ui_after, now, audio_thread, stop_evt, pause_evt, start_t, paused_elapsed,
                 play_length_sec, ctl, units, sink, nOps, lastOp, prevOp>>

\* Runs started and stopped one after the other, each building its merged
\* stream, with the check box clicked in between.
NextMerge ==
  \/ ToggleMetronome
  \/ on_play
  \/ on_stop
  \/ JoinDone
  \/ \E u \in Units : UnitSetup(u)
  \/ \E u \in Units : UnitStop(u)

SpecMerge == Init /\ [][NextMerge]_vars

\* ------------------------------------------- the foreground polling loop
\* _ui_loop, a Tk "after" callback on the foreground thread (it cannot run
\* while a handler is blocked in join): it returns without rescheduling
\* itself when the stop signal is set or the play length is reached, and
\* otherwise moves the drawn playhead and reschedules itself.
_ui_loop ==
  /\ ctl.pc = "idle"
  /\ ui_after
  /\ ui_after' = IF stop_evt THEN FALSE
                 ELSE IF pause_evt THEN TRUE
                 ELSE (now - start_t) + paused_elapsed < play_length_sec
  /\ UNCHANGED <<env, metronome_on, now, audio_thread, stop_evt, pause_evt, start_t,
                 paused_elapsed, play_length_sec, ctl, units, sink, nOps, lastOp, prevOp>>

\* The scheduler together with the polling loop.
NextPoll ==
  \/ on_play
  \/ on_pause
  \/ on_stop
  \/ on_canvas_seek
  \/ JoinDone
  \/ JoinTimedOut
  \/ Tick
  \/ \E u \in Units : UnitSetup(u)
  \/ \E u \in Units : UnitStop(u)
  \/ \E u \in Units : UnitEnd(u)
  \/ \E u \in Units : UnitDispatch(u)
  \/ _ui_loop

SpecPoll == Init /\ [][NextPoll]_vars

\* ------------------------------------------------- the scheduler, fairly
\* A unit that may leave its loop at the play length does so: the loop
\* sleeps at most 20 ms between two tests (line 1350).
Fairness == \A u \in Units : WF_vars(UnitEnd(u))

SpecLive == Init /\ [][Next]_vars /\ Fairness

\* ================================================================== claims
\* A control handler returns in this step.
Returned == ctl'.pc = "idle" /\ (nOps' = nOps + 1 \/ ctl.pc = "join")

\* The number of entries of the sequence s equal to x.
Count(s, x) == Cardinality({k \in 1..Len(s) : s[k] = x})

\* The unit has finished its set-up (it has read its start offset).
HasOffset(u) == units[u].pc \in {"loop", "done"}

\* C1: in every reachable state at most one background unit is alive, and the
\* note-on commands the sink has received since it was last silenced come
\* from one run only.
C1_AtMostOneUnitAlive ==
  /\ Cardinality(Alive) <= 1
  /\ Cardinality(sink.onSince) <= 1

\* C2: when seek(T), invoked while a unit was alive and not paused, returns,
\* exactly one background unit is alive; and once the run started by the seek
\* has a note-on at the sink, no older run has one there since the last
\* all-notes-off.
C2_SeekWhilePlaying ==
  [][ /\ (Returned /\ lastOp'.op = "seek" /\ lastOp'.pre = "Playing")
           => Cardinality(Alive') = 1
      /\ \A u \in Units :
           (units'[u].by = "seek" /\ u \in sink'.onSince) => sink'.onSince = {u}
    ]_vars

\* C3: a background unit that has terminated, on whatever path, has sent
\* all-notes-off to the Sound Sink as its last command.
C3_UnitSilencesOnExit ==
  \A u \in Units :
    (synthOK /\ units[u].pc \in {"done", "crashed"}) => units[u].sent = "ano"

\* C4: a run whose start offset lies strictly inside a note has primed exactly
\* one note-on for that note's pitch (priming precedes every live dispatch).
C4_PrimesNoteAtOffset ==
  \A u \in Units :
    (synthOK /\ HasOffset(u)) =>
      \A k \in 1..Len(midi.notes) :
        LET n == midi.notes[k]
        IN  (n.s < units[u].start_elapsed /\ units[u].start_elapsed < n.s + n.d)
              => Count(units[u].primed, n.p) = 1

\* C5: after stop() has returned, whatever the state it was called in (a
\* second stop() included), the position is 0, the stop and pause signals are
\* clear and no background unit is registered.
C5_StopResets ==
  lastOp.op = "stop" =>
    /\ paused_elapsed = 0
    /\ ~stop_evt
    /\ ~pause_evt
    /\ audio_thread = 0
    /\ ctl.pc = "idle"

\* C5 witness: stop() has returned a second time, right after the stop() of a
\* running playback.
C5_Witness ==
  /\ lastOp.op = "stop"
  /\ lastOp.pre = "Stopped"
  /\ prevOp.op = "stop"
  /\ prevOp.pre = "Playing"
  /\ paused_elapsed = 0

\* C6: when pause() called while Paused returns, the pause signal is clear,
\* exactly one background unit is alive, and that unit, when it has read its
\* start offset before any further control call, starts at the offset the
\* pausing pause() had recorded.
C6_ResumeFromPausedOffset ==
  [][ /\ (Returned /\ lastOp'.op = "resume")
           => /\ ~pause_evt'
              /\ Cardinality(Alive') = 1
              /\ units'[lastOp'.unit].want = lastOp'.offset
      /\ (lastOp'.op = "resume" /\ units'[lastOp'.unit].pc \in {"loop", "done"})
           => units'[lastOp'.unit].start_elapsed = lastOp'.offset
    ]_vars

\* C7: seek(T) called when playback is not actively running leaves the
\* position at the target, no background unit alive, the pause signal clear
\* and starts no run; called while actively running it ends with a new run
\* registered and alive, which (read before any further control call) starts
\* from the target.
C7_SeekRestartsOnlyWhenPlaying ==
  [][ /\ (Returned /\ lastOp'.op = "seek")
           => /\ paused_elapsed' = Max2(0, lastOp'.target)
              /\ IF lastOp'.pre = "Playing"
                   THEN /\ lastOp'.unit # 0
                        /\ audio_thread' = lastOp'.unit
                        /\ units'[lastOp'.unit].pc \in {"merge", "loop"}
                        /\ units'[lastOp'.unit].want = Max2(0, lastOp'.target)
                   ELSE /\ Alive' = {}
                        /\ ~pause_evt'
                        /\ audio_thread' = 0
                        /\ Started' = Started
      /\ (lastOp'.op = "seek" /\ lastOp'.unit # 0
            /\ units'[lastOp'.unit].pc \in {"loop", "done"})
           => units'[lastOp'.unit].start_elapsed = Max2(0, lastOp'.target)
    ]_vars

\* C8 as stated: after seek(T) the position lies between 0 and the total
\* play length.
C8_SeekWithinPlayLength ==
  lastOp.op = "seek" => (0 <= paused_elapsed /\ paused_elapsed <= PlayLength)

\* C8 as amended: after seek(T) the position is T, or 0 for a negative T; no
\* target is rejected and none is limited by the total play length.
C8_SeekClampsAtZero ==
  lastOp.op = "seek" =>
    /\ ctl.pc = "idle" => paused_elapsed = (IF lastOp.target < 0 THEN 0 ELSE lastOp.target)
    /\ paused_elapsed >= 0

\* C8 witness: a seek beyond the play length has returned, after a seek to a
\* negative target.
C8_Witness ==
  /\ lastOp.op = "seek"
  /\ lastOp.target > PlayLength
  /\ paused_elapsed = lastOp.target
  /\ prevOp.op = "seek"
  /\ prevOp.target < 0

\* C9: within a run the stream index never decreases, the events a pass of
\* the loop dispatches are due (time <= elapsed) and follow each other and
\* their predecessor in the stream in non-decreasing time.
C9_DispatchInTimeOrder ==
  [][ \A u \in Units :
        units[u].pc = "loop" =>
          /\ units'[u].i >= units[u].i
          /\ units'[u].merged = units[u].merged
          /\ \A k \in (units[u].i + 1)..units'[u].i :
               /\ units[u].merged[k].t <= Elapsed(u)
               /\ k > 1 => units[u].merged[k - 1].t <= units[u].merged[k].t
    ]_vars

\* C9 witness: a unit in its loop has dispatched notes and clicks.
C9_Witness ==
  \E u \in Units :
    /\ units[u].pc = "loop"
    /\ units[u].i - units[u].i0 >= 4
    /\ \E k \in (units[u].i0 + 1)..units[u].i : units[u].merged[k].ch = ch9
    /\ \E k \in (units[u].i0 + 1)..units[u].i : units[u].merged[k].ch = 0

\* The segments of the tempo map tc that start at or before tick t.
SegsUpTo(tc, t) == {k \in 1..Len(tc) : tc[k].tick <= t}

\* The last segment of tc with the greatest start tick <= t.
SegOf(tc, t) == CHOOSE k \in SegsUpTo(tc, t) : \A j \in SegsUpTo(tc, t) : j <= k

\* The result r of a query at tick t uses the segment SegOf and the formula.
UsesSegment(tc, t, r) ==
  SegsUpTo(tc, t) # {} =>
    /\ r.ok
    /\ r.index = SegOf(tc, t)
    /\ tc[r.index].tick <= t
    /\ \A j \in 1..Len(tc) :
         tc[j].tick <= t =>
           (tc[j].tick < tc[r.index].tick \/ (tc[j].tick = tc[r.index].tick /\ j <= r.index))
    /\ r.seconds = tc[r.index].sec + (t - tc[r.index].tick) * tc[r.index].us

MeasureTicks(trk) ==
  LET tsc == time_signature_changes(trk)
      end == EndOfTrack(trk, 1, default_tempo, 0, 0).tick
      stop(i) == IF i < Len(tsc) THEN tsc[i + 1].tick ELSE end
      tpm(i) == (tsc[i].numerator * TicksPerBeat * 4) \div tsc[i].denominator
  IN  UNION {{tsc[i].tick + k * tpm(i) : k \in {j \in 0..(end \div tpm(i)) : tsc[i].tick + j * tpm(i) < stop(i)}} :
               i \in 1..Len(tsc)}

\* The entries of ms are the measures 1..N of the track, in increasing tick
\* order, each with the time of its tick.
MeasuresAsSpecified(trk) ==
  LET tc == tempo_changes(trk)
  IN  /\ Len(ms.starts) = Cardinality(MeasureTicks(trk))
      /\ {ms.starts[n].tick : n \in 1..Len(ms.starts)} = MeasureTicks(trk)
      /\ \A n \in 1..(Len(ms.starts) - 1) : ms.starts[n].tick < ms.starts[n + 1].tick
      /\ \A n \in 1..Len(ms.starts) :
           LET t == ms.starts[n].tick
           IN  /\ SegsUpTo(tc, t) # {}
               /\ ms.starts[n].sec = tc[SegOf(tc, t)].sec + (t - tc[SegOf(tc, t)].tick) * tc[SegOf(tc, t)].us

\* C11: for a track with time signatures, get_measure_starts returns the
\* measures numbered 1..N without gaps: the start ticks are those of the
\* formula, strictly increasing, each with tick_to_seconds of its tick.
C11_MeasureStarts ==
  (ms.made /\ time_signature_changes(track) # <<>>) =>
    (ms.status = "ok" /\ MeasuresAsSpecified(track))

\* C12: for a track without any time_signature message get_measure_starts
\* does not fail and returns measures under the default 4/4: one every
\* 4 * ticks_per_beat ticks from tick 0 to the end of the track.
C12_DefaultTimeSignature ==
  (ms.made /\ time_signature_changes(track) = <<>>) =>
    /\ ms.status = "ok"
    /\ LET end == EndOfTrack(track, 1, default_tempo, 0, 0).tick
       IN  {ms.starts[n].tick : n \in 1..Len(ms.starts)}
             = {t \in 0..end : t < end /\ t % (4 * TicksPerBeat) = 0}

\* The start ticks of a tempo table are in ascending order.
Ascending(tc) == \A k \in 1..(Len(tc) - 1) : tc[k].tick <= tc[k + 1].tick

\* C13: a tempo table whose start ticks are not ascending makes
\* current_tick_to_seconds fail instead of returning a value.
C13_MalformedTableFails ==
  (tq.made /\ ~Ascending(table)) => (~tq.r1.ok /\ ~tq.r2.ok)

\* Reference pairing.  A message begins a note (note_on with velocity > 0)
\* or ends one (note_off, or note_on with velocity 0).
IsBegin(m) == m.type = "note_on" /\ m.velocity > 0

IsEnd(m) == m.type = "note_off" \/ (m.type = "note_on" /\ m.velocity = 0)

\* The number of begins of pitch p still open after message k.
RECURSIVE OpenCount(_, _, _)
OpenCount(trk, p, k) ==
  IF k = 0 THEN 0
  ELSE IF trk[k].note # p THEN OpenCount(trk, p, k - 1)
  ELSE IF IsBegin(trk[k]) THEN OpenCount(trk, p, k - 1) + 1
  ELSE IF IsEnd(trk[k]) /\ OpenCount(trk, p, k - 1) > 0 THEN OpenCount(trk, p, k - 1) - 1
  ELSE OpenCount(trk, p, k - 1)

\* The tempo in force after message k.
RECURSIVE TempoAfter(_, _)
TempoAfter(trk, k) ==
  IF k = 0 THEN default_tempo
  ELSE IF trk[k].type = "set_tempo" THEN trk[k].tempo
  ELSE TempoAfter(trk, k - 1)

\* The tick of message k: the sum of the deltas.
RECURSIVE TickOf(_, _)
TickOf(trk, k) == IF k = 0 THEN 0 ELSE TickOf(trk, k - 1) + trk[k].time

\* The time of message k in ms: each delta at the tempo in force before it.
RECURSIVE TimeOf(_, _)
TimeOf(trk, k) ==
  IF k = 0 THEN 0
  ELSE TimeOf(trk, k - 1) + (trk[k].time * TempoAfter(trk, k - 1)) \div (TicksPerBeat * 1000)

\* The ends that have an open begin, and the begin each is paired with: the
\* most recent begin of the pitch that is still open.
MatchedEnds(trk) ==
  {j \in 1..Len(trk) : IsEnd(trk[j]) /\ OpenCount(trk, trk[j].note, j - 1) > 0}

Partner(trk, j) ==
  LET p == trk[j].note
      open == {i \in 1..(j - 1) :
                 /\ IsBegin(trk[i])
                 /\ trk[i].note = p
                 /\ OpenCount(trk, p, i) = OpenCount(trk, p, j - 1)}
  IN  CHOOSE i \in open : \A k \in open : k <= i

\* The notes and events of the reference pairing, in the order of the ends.
RECURSIVE RefNotes(_, _)
RefNotes(trk, j) ==
  IF j = 0 THEN <<>>
  ELSE IF j \in MatchedEnds(trk)
    THEN Append(RefNotes(trk, j - 1),
                [s |-> TimeOf(trk, Partner(trk, j)),
                 d |-> IF TimeOf(trk, j) - TimeOf(trk, Partner(trk, j)) < MinNoteLen
                         THEN MinNoteLen
                         ELSE TimeOf(trk, j) - TimeOf(trk, Partner(trk, j)),
                 p |-> trk[j].note])
    ELSE RefNotes(trk, j - 1)

RECURSIVE RefEvents(_, _)
RefEvents(trk, j) ==
  IF j = 0 THEN <<>>
  ELSE IF j \in MatchedEnds(trk)
    THEN RefEvents(trk, j - 1)
           \o << [t |-> TimeOf(trk, Partner(trk, j)), kind |-> "on", note |-> trk[j].note,
                  vel |-> trk[Partner(trk, j)].velocity],
                 [t |-> TimeOf(trk, j), kind |-> "off", note |-> trk[j].note, vel |-> 0] >>
    ELSE RefEvents(trk, j - 1)

\* The earliest start among the reference notes (0 when there is none).
RefOrigin(trk) ==
  LET starts == {TimeOf(trk, Partner(trk, j)) : j \in MatchedEnds(trk)}
  IN  IF starts = {} THEN 0 ELSE CHOOSE m \in starts : \A x \in starts : m <= x

\* C14: the notes of a loaded file are exactly those of the reference LIFO
\* pairing (start of the paired begin, duration floored at 10 ms, pitch), in
\* the order of their ends, counted from the earliest start; the events are
\* one on and one off per note and nothing else; unmatched begins and ends
\* leave nothing, and loading always succeeds.
C14_LifoPairing ==
  midi.loaded =>
    LET ref == RefNotes(track, Len(track))
        evs == RefEvents(track, Len(track))
        d == RefOrigin(track)
    IN  /\ Len(midi.notes) = Len(ref)
        /\ \A n \in 1..Len(ref) :
             midi.notes[n] = [ref[n] EXCEPT !.s = @ - d]
        /\ Len(midi.events) = 2 * Len(ref)
        /\ \A k \in 1..Len(evs) :
             Count(midi.events, [evs[k] EXCEPT !.t = @ - d]) = Count(evs, evs[k])

\* C14 witness: a re-trigger (begin, begin, end, end of one pitch) has been
\* loaded: the inner note is the short one.
C14_Witness ==
  /\ midi.loaded
  /\ Len(track) = 4
  /\ \A k \in 1..4 : track[k].note = 60
  /\ IsBegin(track[1]) /\ IsBegin(track[2]) /\ IsEnd(track[3]) /\ IsEnd(track[4])
  /\ track[2].time > 0 /\ track[3].time > 0 /\ track[4].time > 0
  /\ Len(midi.notes) = 2
  /\ midi.notes[1].s > midi.notes[2].s

\* The click_on events of the generated list, in list order.
ClickOns == SelectSeq(click_out.ev, LAMBDA e : e.kind = "click_on")

\* C15: the k-th generated beat, counted from 0 over the whole stream, is a
\* downbeat (pitch 37, velocity 115) exactly when k mod
\* round(beats_per_measure) is 0, and a weak click (42, 85) otherwise.
C15_DownbeatEveryMeasure ==
  (click_out.made /\ click_out.status = "ok") =>
    \A k \in 1..Len(ClickOns) :
      IF (k - 1) % RoundHalfEven(BeatsNum, BeatsDen) = 0
        THEN ClickOns[k].note = CLICK_NOTE_STRONG /\ ClickOns[k].vel = accent_vel
        ELSE ClickOns[k].note = CLICK_NOTE_WEAK /\ ClickOns[k].vel = weak_vel

\* C15 witness: 4/4 with a tempo change inside the first measure and a
\* second downbeat after it.
C15_Witness ==
  /\ click_out.made
  /\ ts = <<4, 4>>
  /\ Len(midi.tempo_changes) = 2
  /\ midi.tempo_changes[1].us # midi.tempo_changes[2].us
  /\ midi.tempo_changes[2].t = 750
  /\ Len(ClickOns) >= 6
  /\ ClickOns[5].note = CLICK_NOTE_STRONG
  /\ ClickOns[5].t > midi.tempo_changes[2].t

\* The beat times the tempo table has below the end time: segment start
\* plus a multiple of the beat length, before the segment's end.
BeatTimes ==
  LET tc == midi.tempo_changes
      stop(k) == IF k = Len(tc) THEN play_length_sec
                 ELSE IF tc[k + 1].t < play_length_sec THEN tc[k + 1].t ELSE play_length_sec
  IN  {t \in 0..play_length_sec :
         \E k \in 1..Len(tc) :
           /\ tc[k].t <= t
           /\ t < stop(k)
           /\ (t - tc[k].t) % (tc[k].us \div 1000) = 0}

\* C16: build_click_events returns, for every beat, one click_on and one
\* click_off of the same pitch on channel 9, the off 30 ms after the on; the
\* click_on times are exactly the beat times of the segments; the list is
\* sorted by time.
C16_ClickPairs ==
  click_out.made =>
    /\ click_out.status = "ok"
    /\ Len(ClickOns) = Cardinality(BeatTimes)
    /\ {ClickOns[k].t : k \in 1..Len(ClickOns)} = BeatTimes
    /\ Len(click_out.ev) = 2 * Len(ClickOns)
    /\ \A k \in 1..Len(ClickOns) :
         /\ ClickOns[k].ch = ch9
         /\ Count(click_out.ev, [ClickOns[k] EXCEPT !.kind = "click_off", !.t = @ + ClickLen,
                                                    !.vel = 0]) = 1
    /\ \A k \in 1..(Len(click_out.ev) - 1) : click_out.ev[k].t <= click_out.ev[k + 1].t

\* C17: without a synthesizer nothing reaches the Sound Sink, and the unit
\* still runs: no unit fails, a pass of the loop moves the index exactly
\* over the events that are due, and a unit leaves its loop only on the stop
\* signal or at the total play length.
C17_RunsWithoutSink ==
  [][ ~synthOK =>
        /\ sink' = sink
        /\ sink.onSince = {}
        /\ \A u \in Units :
             /\ units'[u].sent = "none"
             /\ units'[u].primed = <<>>
             /\ units'[u].pc # "crashed"
             /\ (units[u].pc = "loop" /\ units'[u].i # units[u].i) =>
                  /\ units'[u].i > units[u].i
                  /\ \A k \in 1..units'[u].i : units[u].merged[k].t <= Elapsed(u)
                  /\ units'[u].i < Len(units[u].merged)
                       => units[u].merged[units'[u].i + 1].t > Elapsed(u)
             /\ (units[u].pc = "loop" /\ units'[u].pc # "loop") =>
                  /\ units'[u].pc = "done"
                  /\ stop_evt \/ Elapsed(u) >= play_length_sec
    ]_vars

\* C17 witness: without a synthesizer a run has dispatched events and has
\* ended at the play length, and a second run was stopped.
C17_Witness ==
  /\ ~synthOK
  /\ units[1].pc = "done"
  /\ units[1].i > units[1].i0
  /\ units[2].pc = "done"
  /\ lastOp.op = "stop"
  /\ lastOp.join = "joined"

\* The notes of the reference pairing that sound at offset t: start <= t and
\* off-event time > t, both counted from the earliest start.
SoundingAt(trk, t) ==
  {j \in MatchedEnds(trk) :
     /\ TimeOf(trk, Partner(trk, j)) - RefOrigin(trk) <= t
     /\ TimeOf(trk, j) - RefOrigin(trk) > t}

\* The number of priming note-ons of pitch p.
PrimedCount(cmds, p) ==
  Cardinality({k \in 1..Len(cmds) : cmds[k].cmd = "on" /\ cmds[k].note = p})

\* C18: the priming of a run started at offset t issues a note-on for each
\* note with start <= t and off-event time > t, and for no other: a pitch
\* receives a priming note-on exactly when a note of that pitch sounds at t.
C18_PrimesSoundingNotes ==
  prime_out.made =>
    \A p \in Pitches :
      (PrimedCount(prime_out.cmds, p) > 0)
        <=> ({j \in SoundingAt(track, prime_out.t) : track[j].note = p} # {})

\* The pause() that the last control call was: made while Playing, and the
\* unit it paused neither stopped nor replaced since.
PausedByLastCall ==
  /\ lastOp.op = "pause"
  /\ lastOp.pre = "Playing"
  /\ pause_evt
  /\ ~stop_evt
  /\ audio_thread = lastOp.unit

\* C19: pause() while Playing adds the time since play() to the offset, sets
\* the pause signal and leaves the unit alive; from its return until the unit
\* is stopped or replaced the unit sends nothing to the Sound Sink and its
\* stream index does not change.
C19_PausedUnitIsSilent ==
  [][ /\ (lastOp' # lastOp /\ lastOp'.op = "pause" /\ lastOp'.pre = "Playing") =>
           /\ paused_elapsed' = paused_elapsed + (now - start_t)
           /\ pause_evt'
           /\ units' = units
           /\ IsAlive(audio_thread)
      /\ PausedByLastCall =>
           /\ units'[lastOp.unit].i = units[lastOp.unit].i
           /\ units'[lastOp.unit].primed = units[lastOp.unit].primed
           /\ lastOp.unit \notin (sink'.onSince \ sink.onSince)
           /\ units'[lastOp.unit].sent \in {units[lastOp.unit].sent, "ano"}
    ]_vars

\* C20: between control calls, whenever the pause signal is set exactly one
\* background unit is alive, the registered one; and a pause() made when no
\* unit was alive (never played, or the last run over) has not set the pause
\* signal and has left the position where it was.
C20_PausedHasOneUnit ==
  /\ (ctl.pc = "idle" /\ pause_evt) => Alive = {audio_thread}
  /\ (lastOp.op \in {"pause", "pause_noop"} /\ lastOp.pre \in {"Stopped", "Ended"}) =>
       /\ ~pause_evt
       /\ paused_elapsed = lastOp.offset

\* C21: every play(), stop() and seek() (and the resume that runs play())
\* sends all-notes-off from the control path itself: at its return no
\* note-on received by the synthesizer is left without a later
\* all-notes-off, whether no unit was alive, the unit joined in time, or the
\* join timed out with the unit still running.
C21_ControlPathSilences ==
  [][ (synthOK /\ lastOp' # lastOp /\ lastOp'.op \in {"play", "stop", "seek", "resume"})
        => sink'.onSince = {}
    ]_vars

\* C21 witness: a stop() whose join timed out has returned; the unit it
\* could not stop has sent note commands and no all-notes-off of its own,
\* and the synthesizer is silent.
C21_Witness ==
  /\ synthOK
  /\ lastOp.op = "stop"
  /\ lastOp.join = "timeout"
  /\ \E u \in Units : units[u].pc = "loop" /\ units[u].sent \in {"on", "off"}
  /\ sink.onSince = {}

\* C22: a run started by play() starts at the position play() was called
\* at, whatever control call comes before the unit reads its offset: its
\* start offset is that position and its first index is the number of merged
\* events before it.
C22_StartsAtPlayPosition ==
  \A u \in Units :
    (units[u].by = "play" /\ HasOffset(u)) =>
      /\ units[u].start_elapsed = units[u].want
      /\ units[u].i0 = Cardinality({k \in 1..Len(units[u].merged) :
                                      units[u].merged[k].t < units[u].want})

\* The events of the merged stream m on channel ch, in their order.
OnChannel(m, ch) == SelectSeq(m, LAMBDA e : e.ch = ch)

\* C23: the merged stream a unit builds is sorted by time; its channel-0
\* events are the file's note events, all of them and in their order; its
\* channel-9 events are the click generator's events when the metronome is
\* enabled at that moment and none when it is disabled; at equal times a
\* note event comes before a click event.  Each run builds its own.
C23_MergedStream ==
  [][ \A u \in Units :
        (units[u].pc = "merge" /\ units'[u].pc = "loop") =>
          LET m == units'[u].merged
          IN  /\ \A k \in 1..(Len(m) - 1) : m[k].t <= m[k + 1].t
              /\ \A k \in 1..Len(m) : m[k].ch \in {0, ch9}
              /\ OnChannel(m, 0)
                   = [k \in 1..Len(midi.events) |->
                        [t |-> midi.events[k].t, kind |-> midi.events[k].kind,
                         note |-> midi.events[k].note, vel |-> midi.events[k].vel,
                         ch |-> 0]]
              /\ ~metronome_on => OnChannel(m, ch9) = <<>>
              /\ (metronome_on /\ midi.loaded) =>
                   OnChannel(m, ch9)
                     = build_click_events(midi.tempo_changes, play_length_sec,
                                          BeatsNum, BeatsDen).ev
              /\ \A j \in 1..Len(m) : \A k \in (j + 1)..Len(m) :
                   m[j].t = m[k].t => ~(m[j].ch = ch9 /\ m[k].ch = 0)
    ]_vars

\* C23 witness: the metronome was switched off between two play() calls:
\* the first run's stream has clicks (one of them at the time of a note
\* event, after it), the second run's stream has the notes only.
C23_Witness ==
  /\ ~metronome_on
  /\ units[1].pc = "done"
  /\ units[2].pc = "loop"
  /\ OnChannel(units[1].merged, ch9) # <<>>
  /\ \E k \in 1..(Len(units[1].merged) - 1) :
       /\ units[1].merged[k].t = units[1].merged[k + 1].t
       /\ units[1].merged[k].ch = 0
       /\ units[1].merged[k + 1].ch = ch9
  /\ OnChannel(units[2].merged, ch9) = <<>>
  /\ OnChannel(units[2].merged, 0) # <<>>

\* What the loading loop has collected before the times are normalised.
RawLoad == LoadLoop(track, 1, LoadInit)

RawEvents == SortByTime(RawLoad.events)

\* The time of the earliest on event (0 when there is none).
EarliestOn ==
  LET ons == {RawEvents[k].t : k \in {j \in 1..Len(RawEvents) : RawEvents[j].kind = "on"}}
  IN  IF ons = {} THEN 0 ELSE CHOOSE m \in ons : \A x \in ons : m <= x

\* C24: a loaded file is normalised by one offset d, the time of the
\* earliest on event: every event and every note start is its raw value
\* minus d, in the raw order and with the raw durations; every tempo segment
\* starts at max(0, raw - d); the earliest on event is at 0 and no event or
\* note start is negative.
C24_Normalised ==
  midi.loaded =>
    LET d == EarliestOn
    IN  /\ Len(midi.events) = Len(RawEvents)
        /\ \A k \in 1..Len(RawEvents) :
             midi.events[k] = [RawEvents[k] EXCEPT !.t = @ - d]
        /\ Len(midi.notes) = Len(RawLoad.notes_tmp)
        /\ \A k \in 1..Len(midi.notes) :
             midi.notes[k] = [RawLoad.notes_tmp[k] EXCEPT !.s = @ - d]
        /\ Len(midi.tempo_changes) = Len(RawLoad.tempo_changes)
        /\ \A k \in 1..Len(midi.tempo_changes) :
             midi.tempo_changes[k]
               = [RawLoad.tempo_changes[k] EXCEPT !.t = Max2(0, @ - d)]
        /\ \A k \in 1..Len(midi.events) : midi.events[k].t >= 0
        /\ \A k \in 1..Len(midi.notes) : midi.notes[k].s >= 0
        /\ midi.events # <<>> =>
             \E k \in 1..Len(midi.events) :
               midi.events[k].kind = "on" /\ midi.events[k].t = 0

\* C24 witness: a file with a leading rest and a tempo change before its
\* first note: the times are shifted and the segment of the tempo change,
\* which starts before the first note, is clamped to 0.
C24_Witness ==
  /\ midi.loaded
  /\ EarliestOn > 0
  /\ Len(midi.tempo_changes) = 2
  /\ RawLoad.tempo_changes[2].t > 0
  /\ RawLoad.tempo_changes[2].t < EarliestOn
  /\ midi.tempo_changes[2].t = 0
  /\ Len(midi.notes) = 1

\* C25: the tempo table built from a track is sorted by start tick and its
\* first segment starts at tick 0, so that the conversion of every tick
\* >= 0 is defined.
C25_TableStartsAtZero ==
  tq.made =>
    LET tc == tempo_changes(track)
    IN  /\ \A k \in 1..(Len(tc) - 1) : tc[k].tick <= tc[k + 1].tick
        /\ tc # <<>>
        /\ tc[1].tick = 0
        /\ tq.r1.ok
        /\ tq.r2.ok

\* C26: the stop signal set for a live unit is not cleared before that unit
\* has exited, also when the join times out; and a unit dispatches only
\* while no later run has been started.
C26_StopSignalStays ==
  [][ /\ (stop_evt /\ ~stop_evt') => ~IsAlive(audio_thread)
      /\ \A u \in Units :
           (units[u].pc = "loop" /\ units'[u].i > units[u].i) =>
             \A v \in Units : v > u => units[v].pc = "none"
    ]_vars

\* C27: within a run no note receives two note-ons: the live dispatch sends
\* no note-on for a note the unit has primed.  (A primed note has started at
\* or before the start offset and the live dispatch begins at the first
\* event at or after it, so the two can meet only in a note that starts at
\* the offset.)
C27_OneNoteOnPerNote ==
  \A u \in Units :
    (synthOK /\ HasOffset(u)) =>
      \A k \in (units[u].i0 + 1)..units[u].i :
        (units[u].merged[k].kind = "on" /\ units[u].merged[k].t = units[u].start_elapsed)
          => Count(units[u].primed, units[u].merged[k].note) = 0

\* A step of a background unit, of the clock or of the polling loop: no
\* control handler starts, continues or returns in it.
NoControlStep == ctl' = ctl /\ nOps' = nOps /\ lastOp' = lastOp

\* C28: the background unit, the polling loop and the natural end of a run
\* leave the position, the stop and pause signals and the registered unit
\* unchanged; the position changes only in pause, stop and seek; so a play()
\* made while Playing or after a natural end starts the new run at the
\* position the previous run started from.
C28_PositionFrame ==
  [][ /\ NoControlStep =>
           /\ paused_elapsed' = paused_elapsed
           /\ stop_evt' = stop_evt
           /\ pause_evt' = pause_evt
           /\ audio_thread' = audio_thread
      /\ paused_elapsed' # paused_elapsed =>
           (lastOp' # lastOp /\ lastOp'.op \in {"pause", "stop", "seek"})
      /\ (lastOp' # lastOp /\ lastOp'.op = "play" /\ lastOp'.pre \in {"Playing", "Ended"}) =>
           /\ units'[lastOp'.unit].want = paused_elapsed
           /\ HasOffset(audio_thread) =>
                units[audio_thread].start_elapsed = paused_elapsed
    ]_vars

\* C28 witness: a run started at a sought position has ended by itself, the
\* play() after it has started a second run from the same position, and the
\* polling loop has run to the end of that one too.
C28_Witness ==
  /\ lastOp.op = "play"
  /\ lastOp.pre = "Ended"
  /\ prevOp.op = "play"
  /\ ~ui_after
  /\ units[1].pc = "done"
  /\ units[1].start_elapsed > 0
  /\ units[2].want = units[1].start_elapsed
  /\ paused_elapsed = units[1].start_elapsed

\* The registered run has ended by itself and no handler is running.
EndedByItself ==
  /\ ctl.pc = "idle"
  /\ audio_thread # 0
  /\ units[audio_thread].pc = "done"

\* C29, the part before the end: a unit in its loop whose elapsed time has
\* reached the play length leaves the loop, unless it is paused or stopped
\* first.
C29_EndsAtPlayLength ==
  \A u \in Units :
    (units[u].pc = "loop" /\ Elapsed(u) >= play_length_sec /\ ~pause_evt /\ ~stop_evt)
      ~> (units[u].pc # "loop" \/ pause_evt \/ stop_evt)

\* C29, the part after the end: once the registered run has ended by itself
\* no note-on or note-off reaches the synthesizer until the next play(): no
\* unit dispatches or primes.
C29_SilentAfterEnd ==
  [][ (synthOK /\ EndedByItself /\ NoControlStep) =>
        \A v \in Units :
          /\ units[v].pc = "loop" => units'[v].i = units[v].i
          /\ units'[v].primed = units[v].primed
    ]_vars

====
